---- MODULE Spec2Model ----
(***************************************************************************)
(* Per-chunk event processing of the AGC ttbar notebook                    *)
(* (agc-coffea-202x-virtual-arrays-and-executors.ipynb):                   *)
(* object_selection, region_selection, calculate_m_reco_top and            *)
(* create_histograms.process, plus the runner's merge of the returned      *)
(* histograms.                                                             *)
(*                                                                         *)
(* Units.  All numbers are integers:                                       *)
(*   pt            in 0.01 GeV   (30 GeV = 3000)                           *)
(*   multipliers   in percent    (1.03 = 103)                              *)
(*   eta           in tenths     (2.1 = 21, 2.4 = 24)                      *)
(*   btagCSVV2     in tenths     (0.5 = 5)                                 *)
(*   pfRelIso04    in hundredths (0.15 = 15)                               *)
(*   corrections   in permille   (1.025 = 1025)                            *)
(* An event weight is an exact fraction <<numerator, denominator>>.        *)
(* Columns are jagged: a column is a sequence over the events of the       *)
(* batch, and each entry is the sequence of the event's objects.           *)
(***************************************************************************)
EXTENDS Integers, Sequences, FiniteSets, TLC

\* --------------------------------------------------------------- bounds
\* Largest number of events in a batch handed to process.
MaxEvents == 2
\* Largest number of jets of an event handed to calculate_m_reco_top alone.
MaxJets == 4
\* Largest number of chunks the runner hands out in one run.
MaxChunks == 2

\* ------------------------------------------------------ program constants
B_TAG_THRESHOLD == 5
lumi == 3378
\* events["pt_scale_up"] = 1.03
PtScaleUp == 103
\* Units of the multipliers and of the correction weights.
Percent == 100
Permille == 1000

\* ------------------------------------------------------------- helpers
Range(s) == {s[i] : i \in 1..Len(s)}

Abs(x) == IF x < 0 THEN -x ELSE x

\* ak.num(column, axis=1)
Num(column) == [i \in 1..Len(column) |-> Len(column[i])]

RECURSIVE SumSeq(_)
SumSeq(s) == IF s = <<>> THEN 0 ELSE Head(s) + SumSeq(Tail(s))

\* array[mask] on the event axis: keeps the events whose mask entry is true.
RECURSIVE MaskEvents(_, _)
MaskEvents(column, mask) ==
    IF column = <<>> THEN <<>>
    ELSE (IF Head(mask) THEN <<Head(column)>> ELSE <<>>)
         \o MaskEvents(Tail(column), Tail(mask))

\* Option-type entries (awkward's "?float64"): a missing value is None, a
\* present value v is Some(v).
None == <<>>
Some(v) == <<v>>

\* ------------------------------------------------------ object_selection
electron_reqs(e) ==
    (e.pt > 3000) /\ (Abs(e.eta) < 21) /\ (e.cutBased = 4) /\ (e.sip3d < 4)

muon_reqs(m) ==
    (m.pt > 3000) /\ (Abs(m.eta) < 21) /\ m.tightId /\ (m.sip3d < 4)
    /\ (m.pfRelIso04_all < 15)

jet_reqs(j) ==
    (j.pt > 3000) /\ (Abs(j.eta) < 24) /\ j.isTightLeptonVeto

\* Only keep objects that pass the requirements; events are all kept.
object_selection(elecs, muons, jets) ==
    [elecs |-> [i \in 1..Len(elecs) |-> SelectSeq(elecs[i], electron_reqs)],
     muons |-> [i \in 1..Len(muons) |-> SelectSeq(muons[i], muon_reqs)],
     jets  |-> [i \in 1..Len(jets)  |-> SelectSeq(jets[i], jet_reqs)]]

\* ------------------------------------------------------ PackedSelection
\* PackedSelection(dtype='uint64'): the names in registration order and, per
\* event, one unsigned integer whose bit k is the mask registered k-th.
RECURSIVE Pow2(_)
Pow2(k) == IF k = 0 THEN 1 ELSE 2 * Pow2(k - 1)

Bit(word, k) == (word \div Pow2(k)) % 2 = 1

NameIndex(names, name) == CHOOSE k \in 1..Len(names) : names[k] = name

PackedSelection(n) == [names |-> <<>>, data |-> [i \in 1..n |-> 0]]

\* selections.add(name, mask): the mask goes to the next free bit.
PackedAdd(sel, name, mask) ==
    [names |-> Append(sel.names, name),
     data  |-> [i \in 1..Len(sel.data) |->
                  sel.data[i] + (IF mask[i] THEN Pow2(Len(sel.names)) ELSE 0)]]

\* selections.all(*names) raises for a name that was never added.
PackedAllRaises(sel, names) == \E nm \in names : nm \notin Range(sel.names)

\* selections.any(*names): one of the named bits is enough (what the code
\* does not ask for).
PackedAny(sel, names) ==
    [i \in 1..Len(sel.data) |->
       \E nm \in names : Bit(sel.data[i], NameIndex(sel.names, nm) - 1)]

\* selections.all(*names): (data & bits(names)) == bits(names), event by event.
PackedAll(sel, names) ==
    [i \in 1..Len(sel.data) |->
       \A nm \in names : Bit(sel.data[i], NameIndex(sel.names, nm) - 1)]

NTagged(evjets) ==
    Len(SelectSeq(evjets, LAMBDA j : j.btagCSVV2 > B_TAG_THRESHOLD))

\* The count with "at or above the threshold" (what the code does not do).
NTaggedAtOrAbove(evjets) ==
    Len(SelectSeq(evjets, LAMBDA j : j.btagCSVV2 >= B_TAG_THRESHOLD))

\* ak.sum(jets.btagCSVV2 > B_TAG_THRESHOLD, axis=1)
BTagCount(evjets) == NTagged(evjets)

region_selection(elecs, muons, jets) ==
    LET n  == Len(jets)
        s0 == PackedSelection(n)
        s1 == PackedAdd(s0, "exactly_1l",
                        [i \in 1..n |-> Len(elecs[i]) + Len(muons[i]) = 1])
        s2 == PackedAdd(s1, "atleast_4j", [i \in 1..n |-> Len(jets[i]) >= 4])
        s3 == PackedAdd(s2, "exactly_1b", [i \in 1..n |-> BTagCount(jets[i]) = 1])
        s4 == PackedAdd(s3, "atleast_2b", [i \in 1..n |-> BTagCount(jets[i]) >= 2])
        s5 == PackedAdd(s4, "4j1b",
                        PackedAll(s4, {"exactly_1l", "atleast_4j", "exactly_1b"}))
        s6 == PackedAdd(s5, "4j2b",
                        PackedAll(s5, {"exactly_1l", "atleast_4j", "atleast_2b"}))
    IN s6

\* -------------------------------------------------- calculate_m_reco_top
\* Four-momentum of a jet from its (pt, eta, phi, mass) fields. The jets of
\* the model are massless and central (eta = 0), and phi is a quadrant
\* 0..3 (0, 90, 180, 270 degrees), so that px, py, pz, E are integers.
CosQ(q) == CASE q = 0 -> 1 [] q = 1 -> 0 [] q = 2 -> -1 [] q = 3 -> 0
SinQ(q) == CASE q = 0 -> 0 [] q = 1 -> 1 [] q = 2 -> 0 [] q = 3 -> -1

JetP4(j) ==
    CASE j.eta = 0 /\ j.mass = 0 ->
        [px |-> j.pt * CosQ(j.phi), py |-> j.pt * SinQ(j.phi), pz |-> 0, E |-> j.pt]

AddP4(a, b) ==
    [px |-> a.px + b.px, py |-> a.py + b.py, pz |-> a.pz + b.pz, E |-> a.E + b.E]

\* Squares of p4.pt and p4.mass: the square root is increasing, so the
\* argmax over pt is the argmax over pt^2, and mass is given as mass^2.
Pt2(p) == p.px * p.px + p.py * p.py
Mass2(p) == p.E * p.E - p.px * p.px - p.py * p.py - p.pz * p.pz

\* ak.combinations(jets, 3) of one event: index triples in lexicographic order.
RECURSIVE TriplesFrom(_, _, _, _)
TriplesFrom(n, a, b, c) ==
    IF a > n - 2 THEN <<>>
    ELSE IF b > n - 1 THEN TriplesFrom(n, a + 1, a + 2, a + 3)
    ELSE IF c > n THEN TriplesFrom(n, a, b + 1, b + 2)
    ELSE <<(<<a, b, c>>)>> \o TriplesFrom(n, a, b, c + 1)

Combinations3(evjets) ==
    LET tr == TriplesFrom(Len(evjets), 1, 2, 3)
    IN [k \in 1..Len(tr) |->
          [j1 |-> evjets[tr[k][1]], j2 |-> evjets[tr[k][2]], j3 |-> evjets[tr[k][3]]]]

Max2(a, b) == IF a >= b THEN a ELSE b

\* trijet["p4"], trijet["max_btag"]
WithP4MaxBtag(t) ==
    [j1 |-> t.j1, j2 |-> t.j2, j3 |-> t.j3,
     p4 |-> AddP4(AddP4(JetP4(t.j1), JetP4(t.j2)), JetP4(t.j3)),
     max_btag |-> Max2(t.j1.btagCSVV2, Max2(t.j2.btagCSVV2, t.j3.btagCSVV2))]

\* ak.argmax(values, axis=1, keepdims=True) of one event: the one-element
\* list of the first index of the maximum, [None] for an empty list.
ArgMaxKeepdims(values) ==
    IF values = <<>> THEN <<None>>
    ELSE <<Some(CHOOSE k \in 1..Len(values) :
                  /\ \A m \in 1..Len(values) : values[m] <= values[k]
                  /\ \A m \in 1..(k - 1) : values[m] < values[k])>>

\* list[index] for a jagged index with missing entries: None stays None.
TakeOption(list, index) ==
    [k \in 1..Len(index) |->
       IF index[k] = None THEN None ELSE Some(list[index[k][1]])]

\* ak.flatten(array) (axis=1): erases the list boundaries and keeps what the
\* lists hold, missing values included.
RECURSIVE Flatten(_)
Flatten(column) ==
    IF column = <<>> THEN <<>> ELSE Head(column) \o Flatten(Tail(column))

\* The same with the missing values dropped (what the code does not do).
FlattenDropNone(column) ==
    SelectSeq(Flatten(column), LAMBDA x : x # None)

\* The filter asking for three tagged jets (what the code does not do).
TrijetCandidatesAllTagged(evjets) ==
    LET trijet == Combinations3(evjets)
        full   == [k \in 1..Len(trijet) |-> WithP4MaxBtag(trijet[k])]
    IN SelectSeq(full, LAMBDA t : /\ t.j1.btagCSVV2 > B_TAG_THRESHOLD
                                  /\ t.j2.btagCSVV2 > B_TAG_THRESHOLD
                                  /\ t.j3.btagCSVV2 > B_TAG_THRESHOLD)

\* trijet = trijet[trijet.max_btag > B_TAG_THRESHOLD]
TrijetCandidates(evjets) ==
    LET trijet == Combinations3(evjets)
        full   == [k \in 1..Len(trijet) |-> WithP4MaxBtag(trijet[k])]
    IN SelectSeq(full, LAMBDA t : t.max_btag > B_TAG_THRESHOLD)

TrijetMass(evjets) ==
    LET trijet == TrijetCandidates(evjets)
        pts    == [k \in 1..Len(trijet) |-> Pt2(trijet[k].p4)]
        best   == TakeOption(trijet, ArgMaxKeepdims(pts))
    IN [k \in 1..Len(best) |->
          IF best[k] = None THEN None ELSE Some(Mass2(best[k][1].p4))]

FlattenMass(trijet_mass) == Flatten(trijet_mass)

calculate_m_reco_top(jets) ==
    FlattenMass([i \in 1..Len(jets) |-> TrijetMass(jets[i])])

\* ------------------------------------------------- the Weight Service
\* cset = correctionlib.CorrectionSet.from_file("corrections.json"): per
\* family of cset["event_systematics"] the shape of its formula: "flat" is
\* 1 +- 0.025 and "pt" is 1 +- 0.075 * pt / 50; "absent" when the file does
\* not define the family, "malformed" when what it defines cannot be
\* evaluated.
CsetFiles ==
    { [scale_var |-> "flat", btag_var |-> "pt"],
      [scale_var |-> "flat", btag_var |-> "absent"],
      [scale_var |-> "absent", btag_var |-> "pt"],
      [scale_var |-> "malformed", btag_var |-> "pt"] }

CorrectionValue(kind, direction, pt) ==
    LET delta == IF kind = "flat" THEN 25 ELSE (pt * 3) \div 200
    IN IF direction = "up" THEN Permille + delta ELSE Permille - delta

\* cset["event_systematics"].evaluate raises for a family the file lacks or
\* cannot evaluate.
evaluateRaises(file, family) == file[family] \in {"absent", "malformed"}

\* cset["event_systematics"].evaluate(family, direction, input): one weight
\* per entry of input.
evaluate(file, family, direction, input) ==
    [i \in 1..Len(input) |-> CorrectionValue(file[family], direction, input[i])]

\* region_jets.pt[:, i_jet] (i_jet counts from 0) raises when an event of the
\* region has no such jet.
JetPtAtRaises(region_jets, i_jet) ==
    \E i \in 1..Len(region_jets) : Len(region_jets[i]) < i_jet + 1

JetPtAt(region_jets, i_jet) ==
    [i \in 1..Len(region_jets) |-> region_jets[i][i_jet + 1].pt]

\* ------------------------------------------------------------- weights
MulW(a, b) == <<a[1] * b[1], a[2] * b[2]>>

\* region_weights * wgt_variation, entry by entry.
MulWeights(region_weights, wgt) ==
    [i \in 1..Len(region_weights) |-> MulW(region_weights[i], <<wgt[i], Permille>>)]

\* x_sec * lumi / nevts_total for simulation, 1 for data.
XsecWeight(md) ==
    IF md.process # "data" THEN <<md.xsec * lumi, md.nevts>> ELSE <<1, 1>>

\* ak.ones_like(ak.num(region_jets, axis=1)) * xsec_weight
RegionWeights(region_jets, w) ==
    [i \in 1..Len(region_jets) |-> MulW(<<1, 1>>, w)]

\* ------------------------------------------------------- the catalogs
Jet(pt, btag, phi) ==
    [pt |-> pt, eta |-> 0, phi |-> phi, mass |-> 0, btagCSVV2 |-> btag,
     isTightLeptonVeto |-> TRUE]

JetForward == [Jet(5000, 9, 0) EXCEPT !.eta = -25]
JetNoVeto == [Jet(5000, 9, 0) EXCEPT !.isTightLeptonVeto = FALSE]

GoodEl == [pt |-> 3500, eta |-> 10, cutBased |-> 4, sip3d |-> 1]
BadEl == [pt |-> 3500, eta |-> 10, cutBased |-> 3, sip3d |-> 1]
GoodMu == [pt |-> 3500, eta |-> -10, tightId |-> TRUE, sip3d |-> 1,
           pfRelIso04_all |-> 5]
BadMu == [pt |-> 3500, eta |-> -10, tightId |-> TRUE, sip3d |-> 1,
          pfRelIso04_all |-> 20]

\* The events a batch is drawn from; gauss is what rand_gauss(events.Jet.pt)
\* gives for the jets of the event.
\* One muon, four selected jets with scores 0.9 0.9 0.1 0.1.
EvTwoTags ==
    [Electron |-> <<>>, Muon |-> <<GoodMu>>,
     Jet |-> <<Jet(5000, 9, 0), JetForward, Jet(4500, 9, 1), Jet(4000, 1, 2),
               JetNoVeto, Jet(3500, 1, 3)>>,
     gauss |-> <<105, 100, 95, 105, 100, 105>>]

\* One electron, one tag; the last jet fails the cut once smeared down.
EvOneTag ==
    [Electron |-> <<GoodEl>>, Muon |-> <<>>,
     Jet |-> <<Jet(5000, 9, 0), Jet(4000, 1, 1), Jet(4000, 1, 2), Jet(3100, 1, 3)>>,
     gauss |-> <<105, 105, 95, 95>>]

\* One muon; a score of exactly 0.5 is not a tag.
EvEdgeTag ==
    [Electron |-> <<>>, Muon |-> <<GoodMu>>,
     Jet |-> <<Jet(5000, 9, 0), Jet(4500, 5, 1), Jet(4000, 1, 2), Jet(3500, 1, 1)>>,
     gauss |-> <<95, 105, 105, 95>>]

\* A fifth, tagged jet at exactly 30 GeV passes only when shifted up.
EvEdgePt ==
    [Electron |-> <<BadEl>>, Muon |-> <<GoodMu>>,
     Jet |-> <<Jet(5000, 1, 0), Jet(4500, 1, 1), Jet(4000, 1, 2), Jet(3500, 9, 3),
               Jet(3000, 9, 0)>>,
     gauss |-> <<105, 95, 105, 95, 105>>]

\* Two selected leptons.
EvTwoLeptons ==
    [Electron |-> <<GoodEl>>, Muon |-> <<GoodMu>>,
     Jet |-> <<Jet(5000, 9, 0), Jet(4500, 9, 1), Jet(4000, 1, 2), Jet(3500, 1, 3)>>,
     gauss |-> <<105, 105, 105, 105>>]

\* No selected lepton.
EvNoLepton ==
    [Electron |-> <<>>, Muon |-> <<BadMu>>,
     Jet |-> <<Jet(5000, 9, 0), Jet(4500, 9, 1), Jet(4000, 1, 2), Jet(3500, 1, 3)>>,
     gauss |-> <<95, 95, 95, 95>>]

EventCatalog ==
    {EvTwoTags, EvOneTag, EvEdgeTag, EvEdgePt, EvTwoLeptons, EvNoLepton}

\* Batches of at most n catalog events.
Batches(n) == UNION { [1..k -> EventCatalog] : k \in 0..n }

\* The columns of a batch, as the event source gives them.
Columns(batch) ==
    [Electron |-> [i \in 1..Len(batch) |-> batch[i].Electron],
     Muon |-> [i \in 1..Len(batch) |-> batch[i].Muon],
     Jet |-> [i \in 1..Len(batch) |-> batch[i].Jet]]

Gauss(batch) == [i \in 1..Len(batch) |-> batch[i].gauss]

\* events.metadata of a unit.
Processes == {"ttbar", "wjets", "data"}
Variations == {"nominal", "scaleup"}

Metadata(process, variation) ==
    [process |-> process, variation |-> variation,
     dataset |-> <<process, variation>>,
     xsec |-> CASE process = "ttbar" -> 8 [] process = "wjets" -> 15 [] OTHER -> 0,
     nevts |-> CASE process = "ttbar" -> 10000 [] process = "wjets" -> 5000 [] OTHER -> 1]

MetadataSet == { Metadata(p, v) : p \in Processes, v \in Variations }

\* ------------------------------------------------------------- state
VARIABLES
    cset,             \* the correction set, loaded once
    metadata,         \* events.metadata of the unit
    source,           \* the columns of the unit as the event source holds them
    events,           \* the batch of the unit, with the fields attached to it
    rand,             \* what rand_gauss(events.Jet.pt) returns for the batch
    pc,               \* position of process in its code
    hist_dict,        \* region -> the fills of the histogram created by the call
    xsec_weight,
    syst_variations,
    iv,               \* index of syst_var in syst_variations
    elecs, muons, jets,   \* the selected objects of the current syst_var
    selections,       \* the PackedSelection of the current syst_var
    ir,               \* index of region in hist_dict
    region_jets, region_weights, observable,
    i_dir,            \* index of direction in ["up", "down"]
    wgt_variation,
    out,              \* the runner's accumulator: dataset -> region -> fills
    queries,          \* the Weight Service's log of the calls it received
    nselect,          \* number of object/region selection passes of the call
    merged,           \* the results the runner received, in order
    nchunks           \* number of units handed out so far

vars == <<cset, metadata, source, events, rand, pc, hist_dict, xsec_weight,
          syst_variations, iv, elecs, muons, jets, selections, ir, region_jets,
          region_weights, observable, i_dir, wgt_variation, out, queries,
          nselect, merged, nchunks>>

\* The locals of process (everything but the batch, the histograms and the
\* runner's state).
locals == <<xsec_weight, syst_variations, iv, elecs, muons, jets, selections,
            ir, region_jets, region_weights, observable, i_dir, wgt_variation>>

\* ------------------------------------------------ create_histograms.process
\* hist_dict = {"4j1b": hist_4j1b, "4j2b": hist_4j2b}, in iteration order.
Regions == <<"4j1b", "4j2b">>

jet_kinematic_systs == <<"pt_scale_up", "pt_res_up">>

BtagSysts == <<"btag_var_0", "btag_var_1", "btag_var_2", "btag_var_3">>

Directions == <<"up", "down">>

\* event_systs: without the test on the process, scale_var is always there.
EventSystsAnyProcess(process) == Append(BtagSysts, "scale_var")

EventSysts(process) ==
    IF process = "wjets" THEN Append(BtagSysts, "scale_var") ELSE BtagSysts

\* syst_variations: without the test on the variation, every unit fans out.
SystVariationsAnyUnit(process, variation) ==
    <<"nominal">> \o jet_kinematic_systs \o EventSysts(process)

SystVariations(process, variation) ==
    IF variation = "nominal"
    THEN <<"nominal">> \o jet_kinematic_systs \o EventSysts(process)
    ELSE <<"nominal">>

\* f"{syst_var}_{direction}"
DirName(syst_var, direction) ==
    CASE syst_var = "btag_var_0" -> (IF direction = "up" THEN "btag_var_0_up" ELSE "btag_var_0_down")
      [] syst_var = "btag_var_1" -> (IF direction = "up" THEN "btag_var_1_up" ELSE "btag_var_1_down")
      [] syst_var = "btag_var_2" -> (IF direction = "up" THEN "btag_var_2_up" ELSE "btag_var_2_down")
      [] syst_var = "btag_var_3" -> (IF direction = "up" THEN "btag_var_3_up" ELSE "btag_var_3_down")
      [] syst_var = "scale_var" -> (IF direction = "up" THEN "scale_var_up" ELSE "scale_var_down")

\* The index counted from one, btag_var_3 asking for a fifth jet (what the
\* code does not do).
JetIndexOneBased(syst_var) ==
    CASE syst_var = "scale_var" -> 0
      [] syst_var = "btag_var_0" -> 1
      [] syst_var = "btag_var_1" -> 2
      [] syst_var = "btag_var_2" -> 3
      [] syst_var = "btag_var_3" -> 4

\* int(syst_var.rsplit("_", 1)[-1]) for the btag variations; the leading jet
\* (index 0) for scale_var.
JetIndexLeading(syst_var) == 0

JetIndex(syst_var) ==
    CASE syst_var = "scale_var" -> 0
      [] syst_var = "btag_var_0" -> 0
      [] syst_var = "btag_var_1" -> 1
      [] syst_var = "btag_var_2" -> 2
      [] syst_var = "btag_var_3" -> 3

\* The family evaluate is called with.
Family(syst_var) == IF syst_var = "scale_var" THEN "scale_var" ELSE "btag_var"

\* The name a fill without correction goes under: the unit's own variation
\* replaces the candidate's name when it is not "nominal".
PlainNameOwn(syst_var, variation) == syst_var

PlainName(syst_var, variation) ==
    IF variation # "nominal" THEN variation ELSE syst_var

\* events[syst_var] for jet k of event i: pt_scale_up is one number per
\* event, pt_res_up one number per jet.
MultAt(evts, syst_var, i, k) ==
    IF syst_var = "pt_scale_up" THEN evts.pt_scale_up[i] ELSE evts.pt_res_up[i][k]

\* jets.pt * events[syst_var]
ShiftedPt(evts, syst_var) ==
    [i \in 1..Len(evts.Jet) |->
       [k \in 1..Len(evts.Jet[i]) |->
          [evts.Jet[i][k] EXCEPT
             !.pt = (@ * MultAt(evts, syst_var, i, k)) \div Percent]]]

\* The jets object selection is given: the shift applied to every candidate
\* but "nominal" (what the code does not do).
JetsForAnyShift(evts, syst_var) ==
    IF syst_var = "nominal" THEN evts.Jet
    ELSE IF syst_var = "pt_res_up" THEN ShiftedPt(evts, "pt_res_up")
    ELSE ShiftedPt(evts, "pt_scale_up")

\* jets = events.Jet, then jets["pt"] = ... for a kinematic variation.
JetsFor(evts, syst_var) ==
    IF syst_var \in Range(jet_kinematic_systs) THEN ShiftedPt(evts, syst_var)
    ELSE evts.Jet

\* The batch after jets["pt"] = ... : had jets been the batch's own column,
\* the assignment would have changed the batch.
EventsAfterSetPtInPlace(evts, syst_var) ==
    [evts EXCEPT !.Jet = JetsFor(evts, syst_var)]

\* jets = events.Jet is a new array over the batch's column and
\* jets["pt"] = ... gives that array a new field: the batch is as before.
EventsAfterSetPt(evts, syst_var) == evts

\* ak.sum(region_jets.pt, axis=-1) for "4j1b", calculate_m_reco_top for "4j2b".
Observable(region, rjets) ==
    IF region = "4j1b"
    THEN [i \in 1..Len(rjets) |->
            SumSeq([k \in 1..Len(rjets[i]) |-> rjets[i][k].pt])]
    ELSE calculate_m_reco_top(rjets)

\* hist.fill raises when observable and weight differ in length.
FillRaises(obs, weight) == Len(obs) # Len(weight)

\* hist_dict[region].fill(observable, process=..., variation=..., weight=...)
Fill(hd, region, obs, process, name, weight) ==
    [hd EXCEPT ![region] =
       Append(@, [process |-> process, variation |-> name,
                  observable |-> obs, weight |-> weight])]

\* The sum of two results, histogram by histogram.
AddHist(h1, h2) == [r \in Range(Regions) |-> h1[r] \o h2[r]]

\* The runner adds the returned {dataset: hist_dict} to its accumulator.
Accumulate(acc, dataset, hd) ==
    IF dataset \in DOMAIN acc
    THEN [acc EXCEPT ![dataset] = AddHist(@, hd)]
    ELSE acc @@ (dataset :> hd)

EmptyHists == [r \in Range(Regions) |-> <<>>]
NoResults == [d \in {} |-> EmptyHists]

Running == {"loop", "region", "evaluate", "fill_w", "fill"}

\* A unit as the runner hands it to process: the batch as the event source
\* holds it, and nothing done yet.
FreshUnit(md, batch) ==
    [metadata |-> md,
     source |-> Columns(batch),
     events |-> Columns(batch),
     rand |-> Gauss(batch),
     pc |-> "start",
     hist_dict |-> EmptyHists,
     xsec_weight |-> <<1, 1>>,
     syst_variations |-> <<>>,
     iv |-> 0,
     elecs |-> <<>>,
     muons |-> <<>>,
     jets |-> <<>>,
     selections |-> PackedSelection(0),
     ir |-> 0,
     region_jets |-> <<>>,
     region_weights |-> <<>>,
     observable |-> <<>>,
     i_dir |-> 0,
     wgt_variation |-> <<>>,
     queries |-> <<>>,
     nselect |-> 0]

StartUnit(md, batch) ==
    LET u == FreshUnit(md, batch)
    IN /\ metadata = u.metadata
       /\ source = u.source
       /\ events = u.events
       /\ rand = u.rand
       /\ pc = u.pc
       /\ hist_dict = u.hist_dict
       /\ xsec_weight = u.xsec_weight
       /\ syst_variations = u.syst_variations
       /\ iv = u.iv
       /\ elecs = u.elecs
       /\ muons = u.muons
       /\ jets = u.jets
       /\ selections = u.selections
       /\ ir = u.ir
       /\ region_jets = u.region_jets
       /\ region_weights = u.region_weights
       /\ observable = u.observable
       /\ i_dir = u.i_dir
       /\ wgt_variation = u.wgt_variation
       /\ queries = u.queries
       /\ nselect = u.nselect

Init ==
    /\ cset \in CsetFiles
    /\ \E md \in MetadataSet, batch \in Batches(MaxEvents) : StartUnit(md, batch)
    /\ out = NoResults
    /\ merged = <<>>
    /\ nchunks = 1

\* Lines 276-317: the histograms, the normalization, the two shift fields and
\* the list of candidate variations.
Start ==
    /\ pc = "start"
    /\ hist_dict' = EmptyHists
    /\ xsec_weight' = XsecWeight(metadata)
    /\ events' = [Electron |-> events.Electron, Muon |-> events.Muon,
                  Jet |-> events.Jet,
                  pt_scale_up |-> [i \in 1..Len(events.Jet) |-> PtScaleUp],
                  pt_res_up |-> rand]
    /\ syst_variations' = SystVariations(metadata.process, metadata.variation)
    /\ iv' = 1
    /\ pc' = "loop"
    /\ UNCHANGED <<cset, metadata, source, rand, elecs, muons, jets, selections, ir,
                   region_jets, region_weights, observable, i_dir,
                   wgt_variation, out, queries, nselect, merged, nchunks>>

\* Lines 319-330: the objects of the batch, the shift of a kinematic
\* variation, object selection and region selection.
Select ==
    /\ pc = "loop"
    /\ iv <= Len(syst_variations)
    /\ LET syst_var == syst_variations[iv]
           sel == object_selection(events.Electron, events.Muon,
                                   JetsFor(events, syst_var))
       IN /\ events' = EventsAfterSetPt(events, syst_var)
          /\ elecs' = sel.elecs
          /\ muons' = sel.muons
          /\ jets' = sel.jets
          /\ selections' = region_selection(sel.elecs, sel.muons, sel.jets)
    /\ nselect' = nselect + 1
    /\ ir' = 1
    /\ pc' = "region"
    /\ UNCHANGED <<cset, metadata, source, rand, hist_dict, xsec_weight,
                   syst_variations, iv, region_jets, region_weights,
                   observable, i_dir, wgt_variation, out, queries, merged,
                   nchunks>>

\* Lines 332-340: the region's mask, jets, weights and observable.
Region ==
    /\ pc = "region"
    /\ LET region == Regions[ir]
           syst_var == syst_variations[iv]
       IN IF PackedAllRaises(selections, {region})
          THEN /\ pc' = "failed"
               /\ UNCHANGED <<region_jets, region_weights, observable, i_dir>>
          ELSE LET rjets == MaskEvents(jets, PackedAll(selections, {region}))
               IN /\ region_jets' = rjets
                  /\ region_weights' = RegionWeights(rjets, xsec_weight)
                  /\ observable' = Observable(region, rjets)
                  /\ IF syst_var \in Range(EventSysts(metadata.process))
                     THEN pc' = "evaluate" /\ i_dir' = 1
                     ELSE pc' = "fill" /\ i_dir' = i_dir
    /\ UNCHANGED <<cset, metadata, source, events, rand, hist_dict, xsec_weight,
                   syst_variations, iv, elecs, muons, jets, selections, ir,
                   wgt_variation, out, queries, nselect, merged, nchunks>>

\* The entry the Weight Service logs for the call process is about to make:
\* what it is called with, what it answers, and for which syst_var and
\* region the call is made.
Query(ok) ==
    LET syst_var == syst_variations[iv]
    IN [syst_var |-> syst_var, region |-> Regions[ir],
        family |-> Family(syst_var), direction |-> Directions[i_dir],
        input |-> IF JetPtAtRaises(region_jets, JetIndex(syst_var)) THEN <<>>
                  ELSE JetPtAt(region_jets, JetIndex(syst_var)),
        ok |-> ok,
        result |-> IF ok THEN evaluate(cset, Family(syst_var), Directions[i_dir],
                                       JetPtAt(region_jets, JetIndex(syst_var)))
                   ELSE <<>>]

QueryRaises ==
    \/ JetPtAtRaises(region_jets, JetIndex(syst_variations[iv]))
    \/ evaluateRaises(cset, Family(syst_variations[iv]))

\* After the last fill of a region: the next region, or the next syst_var.
Advance ==
    IF ir < Len(Regions)
    THEN ir' = ir + 1 /\ iv' = iv /\ pc' = "region"
    ELSE ir' = ir /\ iv' = iv + 1 /\ pc' = "loop"

\* An error of the Weight Service answered by a weight of 1 for every event
\* (what the code does not do).
EvaluateDefaultsOnError ==
    /\ pc = "evaluate"
    /\ QueryRaises
    /\ wgt_variation' = [i \in 1..Len(region_jets) |-> Permille]
    /\ queries' = Append(queries, Query(FALSE))
    /\ pc' = "fill_w"
    /\ UNCHANGED <<cset, metadata, source, events, rand, hist_dict, xsec_weight,
                   syst_variations, iv, elecs, muons, jets, selections, ir,
                   region_jets, region_weights, observable, i_dir, out,
                   nselect, merged, nchunks>>

\* Lines 343-347, the call raises: the error leaves process.
EvaluateRaises ==
    /\ pc = "evaluate"
    /\ QueryRaises
    /\ queries' = Append(queries, Query(FALSE))
    /\ pc' = "failed"
    /\ UNCHANGED <<cset, metadata, source, events, rand, hist_dict, xsec_weight,
                   syst_variations, iv, elecs, muons, jets, selections, ir,
                   region_jets, region_weights, observable, i_dir,
                   wgt_variation, out, nselect, merged, nchunks>>

\* Lines 343-347: the correction weights of one direction.
Evaluate ==
    /\ pc = "evaluate"
    /\ ~QueryRaises
    /\ wgt_variation' =
         evaluate(cset, Family(syst_variations[iv]), Directions[i_dir],
                  JetPtAt(region_jets, JetIndex(syst_variations[iv])))
    /\ queries' = Append(queries, Query(TRUE))
    /\ pc' = "fill_w"
    /\ UNCHANGED <<cset, metadata, source, events, rand, hist_dict, xsec_weight,
                   syst_variations, iv, elecs, muons, jets, selections, ir,
                   region_jets, region_weights, observable, i_dir, out,
                   nselect, merged, nchunks>>

\* Lines 348-354: the fill of one direction of a weight variation.
FillWeighted ==
    /\ pc = "fill_w"
    /\ LET weight == MulWeights(region_weights, wgt_variation)
           name == DirName(syst_variations[iv], Directions[i_dir])
       IN IF FillRaises(observable, weight)
          THEN /\ pc' = "failed"
               /\ UNCHANGED <<hist_dict, i_dir, ir, iv>>
          ELSE /\ hist_dict' = Fill(hist_dict, Regions[ir], observable,
                                    metadata.process, name, weight)
               /\ IF i_dir < Len(Directions)
                  THEN /\ i_dir' = i_dir + 1
                       /\ pc' = "evaluate"
                       /\ UNCHANGED <<ir, iv>>
                  ELSE /\ i_dir' = i_dir
                       /\ Advance
    /\ UNCHANGED <<cset, metadata, source, events, rand, xsec_weight, syst_variations,
                   elecs, muons, jets, selections, region_jets, region_weights,
                   observable, wgt_variation, out, queries, nselect, merged,
                   nchunks>>

\* Lines 355-363: the fill of "nominal" or of a kinematic variation.
FillPlain ==
    /\ pc = "fill"
    /\ LET name == PlainName(syst_variations[iv], metadata.variation)
       IN IF FillRaises(observable, region_weights)
          THEN /\ pc' = "failed"
               /\ UNCHANGED <<hist_dict, ir, iv>>
          ELSE /\ hist_dict' = Fill(hist_dict, Regions[ir], observable,
                                    metadata.process, name, region_weights)
               /\ Advance
    /\ UNCHANGED <<cset, metadata, source, events, rand, xsec_weight, syst_variations,
                   elecs, muons, jets, selections, region_jets, region_weights,
                   observable, i_dir, wgt_variation, out, queries, nselect,
                   merged, nchunks>>

\* Line 365 and the runner: process returns {dataset: hist_dict}, which the
\* runner adds to its accumulator.
Return ==
    /\ pc = "loop"
    /\ iv > Len(syst_variations)
    /\ out' = Accumulate(out, metadata.dataset, hist_dict)
    /\ merged' = Append(merged, [dataset |-> metadata.dataset, hists |-> hist_dict])
    /\ pc' = "returned"
    /\ UNCHANGED <<cset, metadata, source, events, rand, hist_dict, locals, queries,
                   nselect, nchunks>>

\* The worker is cancelled and what it had filled reaches the runner all the
\* same (what the code does not do).
CancelKeepsFills ==
    /\ pc \in Running
    /\ out' = Accumulate(out, metadata.dataset, hist_dict)
    /\ pc' = "cancelled"
    /\ UNCHANGED <<cset, metadata, source, events, rand, hist_dict, locals, queries,
                   nselect, merged, nchunks>>

\* The worker is cancelled while process runs: the call never returns, and
\* its histograms are dropped with it.
Cancel ==
    /\ pc \in Running
    /\ pc' = "cancelled"
    /\ UNCHANGED <<cset, metadata, source, events, rand, hist_dict, locals, out,
                   queries, nselect, merged, nchunks>>

Next ==
    \/ Start
    \/ Select
    \/ Region
    \/ Evaluate
    \/ EvaluateRaises
    \/ FillWeighted
    \/ FillPlain
    \/ Return

Spec == Init /\ [][Next]_vars

\* ------------------------------------------------------ the runner
\* full_histogram = sum([v[region] for v in out.values()])
RECURSIVE SumHists(_, _, _)
SumHists(acc, datasets, r) ==
    IF datasets = {} THEN <<>>
    ELSE LET d == CHOOSE x \in datasets : TRUE
         IN acc[d][r] \o SumHists(acc, datasets \ {d}, r)

FullHistogram(acc, r) == SumHists(acc, DOMAIN acc, r)

\* The units of a run of several chunks.
RunMetadata == {Metadata("ttbar", "nominal"), Metadata("ttbar", "scaleup")}
RunBatches == {<<EvTwoTags>>, <<EvOneTag>>}

InitRun ==
    /\ cset \in CsetFiles
    /\ \E md \in RunMetadata, batch \in RunBatches : StartUnit(md, batch)
    /\ out = NoResults
    /\ merged = <<>>
    /\ nchunks = 1

\* The runner hands the next chunk to process once the last call is over:
\* returned, cancelled or failed.
NextChunk ==
    /\ pc \in {"returned", "cancelled", "failed"}
    /\ nchunks < MaxChunks
    /\ \E md \in RunMetadata, batch \in RunBatches :
         LET u == FreshUnit(md, batch)
         IN /\ metadata' = u.metadata
            /\ source' = u.source
            /\ events' = u.events
            /\ rand' = u.rand
            /\ pc' = u.pc
            /\ hist_dict' = u.hist_dict
            /\ xsec_weight' = u.xsec_weight
            /\ syst_variations' = u.syst_variations
            /\ iv' = u.iv
            /\ elecs' = u.elecs
            /\ muons' = u.muons
            /\ jets' = u.jets
            /\ selections' = u.selections
            /\ ir' = u.ir
            /\ region_jets' = u.region_jets
            /\ region_weights' = u.region_weights
            /\ observable' = u.observable
            /\ i_dir' = u.i_dir
            /\ wgt_variation' = u.wgt_variation
            /\ queries' = u.queries
            /\ nselect' = u.nselect
    /\ nchunks' = nchunks + 1
    /\ UNCHANGED <<cset, out, merged>>

NextRun ==
    \/ Next
    \/ Cancel
    \/ NextChunk

SpecRun == InitRun /\ [][NextRun]_vars

\* --------------------------------------- the two functions on their own
\* Variables a call of one function alone does not use.
Unused ==
    /\ cset = [scale_var |-> "flat", btag_var |-> "pt"]
    /\ metadata = Metadata("ttbar", "nominal")
    /\ source = Columns(<<>>)
    /\ events = Columns(<<>>)
    /\ rand = <<>>
    /\ hist_dict = EmptyHists
    /\ xsec_weight = <<1, 1>>
    /\ syst_variations = <<>>
    /\ iv = 0 /\ ir = 0 /\ i_dir = 0
    /\ region_weights = <<>>
    /\ wgt_variation = <<>>
    /\ out = NoResults
    /\ queries = <<>>
    /\ nselect = 0
    /\ merged = <<>>
    /\ nchunks = 0

\* Lists of at most n objects drawn from a set.
ListsOf(S, n) == UNION { [1..k -> S] : k \in 0..n }

\* region_selection on any counts of selected leptons and any selected jets
\* with a score below, at and above the threshold; alone or ahead of a second
\* event.
ScoreJets == { Jet(4000, b, 0) : b \in {1, 5, 9} }
SecondJets == <<Jet(5000, 9, 0), Jet(4500, 9, 1), Jet(4000, 1, 2), Jet(3500, 1, 3)>>

InitRegion ==
    /\ Unused
    /\ pc = "region_selection"
    /\ \E es \in ListsOf({GoodEl}, 2), ms \in ListsOf({GoodMu}, 2),
          js \in ListsOf(ScoreJets, MaxJets), two \in BOOLEAN :
         /\ elecs = IF two THEN <<es, <<>> >> ELSE <<es>>
         /\ muons = IF two THEN <<ms, <<GoodMu>> >> ELSE <<ms>>
         /\ jets = IF two THEN <<js, SecondJets>> ELSE <<js>>
    /\ selections = PackedSelection(0)
    /\ region_jets = <<>>
    /\ observable = <<>>

CallRegionSelection ==
    /\ pc = "region_selection"
    /\ selections' = region_selection(elecs, muons, jets)
    /\ pc' = "region_selection_done"
    /\ UNCHANGED <<cset, metadata, source, events, rand, hist_dict,
                   xsec_weight, syst_variations, iv, elecs, muons, jets, ir,
                   region_jets, region_weights, observable, i_dir,
                   wgt_variation, out, queries, nselect, merged, nchunks>>

SpecRegion == InitRegion /\ [][CallRegionSelection]_vars

\* calculate_m_reco_top on any jets, tagged or not, of events with any number
\* of jets; alone or ahead of a second event.
RecoJets == {Jet(5000, 9, 0), Jet(4000, 1, 1), Jet(3500, 9, 2)}

InitReco ==
    /\ Unused
    /\ pc = "calculate_m_reco_top"
    /\ elecs = <<>> /\ muons = <<>> /\ jets = <<>>
    /\ selections = PackedSelection(0)
    /\ \E js \in ListsOf(RecoJets, MaxJets), two \in BOOLEAN :
         region_jets = IF two THEN <<js, SecondJets>> ELSE <<js>>
    /\ observable = <<>>

CallRecoTop ==
    /\ pc = "calculate_m_reco_top"
    /\ observable' = calculate_m_reco_top(region_jets)
    /\ pc' = "calculate_m_reco_top_done"
    /\ UNCHANGED <<cset, metadata, source, events, rand, hist_dict,
                   xsec_weight, syst_variations, iv, elecs, muons, jets,
                   selections, ir, region_jets, region_weights, i_dir,
                   wgt_variation, out, queries, nselect, merged, nchunks>>

SpecReco == InitReco /\ [][CallRecoTop]_vars

\* ------------------------------------------------------------- claims
\* The variation names of the fills of a region, in fill order.
FillNames(r) == [k \in 1..Len(hist_dict[r]) |-> hist_dict[r][k].variation]

KinematicNames == {"pt_scale_up", "pt_res_up"}
BtagNames == {"btag_var_0_up", "btag_var_0_down", "btag_var_1_up", "btag_var_1_down",
              "btag_var_2_up", "btag_var_2_down", "btag_var_3_up", "btag_var_3_down"}
ScaleNames == {"scale_var_up", "scale_var_down"}

\* C1: when process returns, a unit whose declared variation is not
\* "nominal" has filled each region exactly once, and a nominal "ttbar" unit
\* has filled each region exactly 1 + 2 + 4 * 2 = 11 times.
C1_FillCount ==
    pc = "returned" =>
      \A r \in Range(Regions) :
        /\ metadata.variation # "nominal" => Len(hist_dict[r]) = 1
        /\ (metadata.variation = "nominal" /\ metadata.process = "ttbar")
             => Len(hist_dict[r]) = 1 + 2 + 4 * 2

\* A nominal ttbar unit with events in both regions has returned.
C1_Witness ==
    /\ pc = "returned"
    /\ metadata.variation = "nominal" /\ metadata.process = "ttbar"
    /\ \A r \in Range(Regions) :
         Len(hist_dict[r]) = 11 /\ hist_dict[r][1].observable # <<>>

\* C2: within one call no (region, variation name) is filled twice; a nominal
\* unit that returned has filled, per region, exactly nominal, pt_scale_up,
\* pt_res_up and btag_var_0..3 up and down, plus scale_var up and down exactly
\* when the process is "wjets"; a unit that is not nominal never fills
\* scale_var_*.
C2_FillNames ==
    \A r \in Range(Regions) :
      LET names == FillNames(r)
      IN /\ \A k, m \in 1..Len(names) : names[k] = names[m] => k = m
         /\ (pc = "returned" /\ metadata.variation = "nominal") =>
              Range(names) =
                {"nominal"} \cup KinematicNames \cup BtagNames
                \cup (IF metadata.process = "wjets" THEN ScaleNames ELSE {})
         /\ (Range(names) \cap ScaleNames # {}) =>
              (metadata.variation = "nominal" /\ metadata.process = "wjets")

\* A nominal wjets unit has returned with scale_var filled on events.
C2_Witness ==
    /\ pc = "returned"
    /\ metadata.variation = "nominal" /\ metadata.process = "wjets"
    /\ \A r \in Range(Regions) :
         \E k \in 1..Len(hist_dict[r]) :
           /\ hist_dict[r][k].variation = "scale_var_down"
           /\ hist_dict[r][k].observable # <<>>

\* C3: the fill of a "nominal" or kinematic candidate adds one fill to the
\* region's histogram, named after the candidate in a nominal unit and after
\* the unit's declared variation otherwise, with one weight per event of the
\* region, each equal to the cross-section weight alone (x_sec * lumi /
\* nevts, 1 for data).
C3_PlainFill ==
    [][(pc = "fill" /\ pc' \in {"region", "loop"}) =>
         LET r == Regions[ir]
             f == hist_dict'[r][Len(hist_dict'[r])]
         IN /\ syst_variations[iv] \in {"nominal"} \cup KinematicNames
            /\ hist_dict' = [hist_dict EXCEPT ![r] = Append(@, f)]
            /\ f.variation = (IF metadata.variation = "nominal"
                              THEN syst_variations[iv]
                              ELSE metadata.variation)
            /\ Len(f.weight) = Len(region_jets)
            /\ \A i \in 1..Len(f.weight) :
                 f.weight[i] = (IF metadata.process = "data" THEN <<1, 1>>
                                ELSE <<metadata.xsec * lumi, metadata.nevts>>)
      ]_vars

\* A unit declared "scaleup" has filled a region that holds events.
C3_Witness ==
    /\ metadata.variation = "scaleup" /\ metadata.process = "ttbar"
    /\ \E r \in Range(Regions) :
         /\ Len(hist_dict[r]) = 1
         /\ hist_dict[r][1].variation = "scaleup"
         /\ hist_dict[r][1].weight # <<>>

\* The region masks as the claims state them, for one event.
InRegion(region, nlep, evjets) ==
    /\ nlep = 1
    /\ Len(evjets) >= 4
    /\ IF region = "4j1b"
       THEN Cardinality({k \in 1..Len(evjets) : evjets[k].btagCSVV2 > 5}) = 1
       ELSE Cardinality({k \in 1..Len(evjets) : evjets[k].btagCSVV2 > 5}) >= 2

\* The selected jets of the events of a region, from the given jets.
RegionJetsFrom(alljets, region) ==
    LET sel == object_selection(events.Electron, events.Muon, alljets)
    IN MaskEvents(sel.jets,
                  [i \in 1..Len(sel.jets) |->
                     InRegion(region, Len(sel.elecs[i]) + Len(sel.muons[i]),
                              sel.jets[i])])

\* The positions in the service's log of the calls made for (syst_var, region).
QueriesOf(syst_var, r) ==
    SelectSeq(queries, LAMBDA q : q.syst_var = syst_var /\ q.region = r)

WeightNames == BtagNames \cup ScaleNames

\* The fills of a region under a variation name.
FillsNamed(r, name) == SelectSeq(hist_dict[r], LAMBDA f : f.variation = name)

\* C4: for every weight variation and region the Weight Service is called
\* for "up", then for "down", and no more; with family "scale_var" and the
\* pt of the leading selected jet of each event of the region for scale_var,
\* with family "btag_var" and the pt of the i-th selected jet for btag_var_i;
\* every answered call has its one fill {variation}_{direction} (the fill of
\* the last call may still be pending), whose weights are the cross-section
\* weight times the weights that call returned; when process returns, each
\* weight variation of the unit has had both calls in both regions.
C4_QueryThenFill ==
    \A r \in Range(Regions) :
      LET rj == RegionJetsFrom(events.Jet, r)
          leading == [i \in 1..Len(rj) |-> rj[i][1].pt]
          inRegion == SelectSeq(queries, LAMBDA q : q.region = r)
      IN /\ \A sv \in Range(BtagSysts) \cup {"scale_var"} :
              LET qs == SelectSeq(inRegion, LAMBDA q : q.syst_var = sv)
              IN /\ Len(qs) <= 2
                 /\ \A k \in 1..Len(qs) : qs[k].direction = Directions[k]
                 /\ (pc = "returned" /\ sv \in Range(syst_variations))
                      => Len(qs) = 2
         /\ \A k \in 1..Len(queries) :
              LET q == queries[k]
                  fs == FillsNamed(r, DirName(q.syst_var, q.direction))
              IN q.region = r =>
                   /\ q.syst_var = "scale_var" =>
                        (q.family = "scale_var" /\ q.input = leading)
                   /\ \A n \in 0..3 :
                        q.syst_var = BtagSysts[n + 1] =>
                          /\ q.family = "btag_var"
                          /\ q.input = [i \in 1..Len(rj) |-> rj[i][n + 1].pt]
                   /\ IF q.ok /\ ~(k = Len(queries) /\ pc = "fill_w")
                      THEN /\ Len(fs) = 1
                           /\ Len(fs[1].weight) = Len(q.result)
                           /\ \A i \in 1..Len(q.result) :
                                fs[1].weight[i] =
                                  MulW(XsecWeight(metadata), <<q.result[i], Permille>>)
                      ELSE Len(fs) <= 1
         /\ Len(SelectSeq(hist_dict[r], LAMBDA f : f.variation \in WeightNames))
              <= Len(SelectSeq(inRegion, LAMBDA q : q.ok))

\* A nominal wjets unit has returned after calls, on events of both regions,
\* for scale_var and for btag_var_3, the two directions answered differently.
C4_Witness ==
    /\ pc = "returned"
    /\ \A r \in Range(Regions), sv \in {"scale_var", "btag_var_3"} :
         LET qs == QueriesOf(sv, r)
         IN /\ Len(qs) = 2
            /\ qs[1].input # <<>>
            /\ qs[1].result # qs[2].result

\* The jets object selection keeps of the source's jets with the given pt.
SelectedWithPt(ptOf(_, _)) ==
    [i \in 1..Len(source.Jet) |->
       SelectSeq([k \in 1..Len(source.Jet[i]) |->
                    [source.Jet[i][k] EXCEPT !.pt = ptOf(i, k)]],
                 LAMBDA j : j.pt > 3000 /\ Abs(j.eta) < 24 /\ j.isTightLeptonVeto)]

NominalPt(i, k) == source.Jet[i][k].pt
ScaledPt(i, k) == (source.Jet[i][k].pt * 103) \div 100
SmearedPt(i, k) == (source.Jet[i][k].pt * rand[i][k]) \div 100

Selected == pc \in {"region", "evaluate", "fill_w", "fill"}

\* C5: the batch's jets are never changed by process, and the jets selected
\* for a candidate variation are the source's jets with pt times 1.03 for
\* pt_scale_up, with pt times the resolution multiplier alone for pt_res_up,
\* and with the unshifted pt for "nominal" and every weight variation.
C5_SourceUnchanged ==
    /\ events.Jet = source.Jet
    /\ Selected =>
         jets = (CASE syst_variations[iv] = "pt_scale_up" -> SelectedWithPt(ScaledPt)
                   [] syst_variations[iv] = "pt_res_up" -> SelectedWithPt(SmearedPt)
                   [] OTHER -> SelectedWithPt(NominalPt))

\* A weight variation is being filled, after both kinematic variations, on a
\* batch in which the shifts changed which jets are selected.
C5_Witness ==
    /\ pc = "fill_w"
    /\ syst_variations[iv] = "btag_var_0"
    /\ region_jets # <<>>
    /\ SelectedWithPt(ScaledPt) # SelectedWithPt(NominalPt)
    /\ \E i \in 1..Len(jets) :
         Len(SelectedWithPt(SmearedPt)[i]) < Len(SelectedWithPt(NominalPt)[i])

\* C7: a call the Weight Service fails is the last thing process does: the
\* unit is aborted, the failed call has no fill, nothing reaches the runner,
\* and every fill under a weight variation's name carries the weights some
\* answered call returned for that name and region (no default, no stale
\* weight); the only errors process meets are errors of the Weight Service.
C7_AbortOnError ==
    /\ \A k \in 1..Len(queries) :
         ~queries[k].ok =>
           /\ k = Len(queries)
           /\ pc = "failed"
           /\ FillsNamed(queries[k].region,
                         DirName(queries[k].syst_var, queries[k].direction)) = <<>>
           /\ out = NoResults
    /\ pc = "failed" => (queries # <<>> /\ ~queries[Len(queries)].ok)
    /\ \A r \in Range(Regions) :
         LET obs == Observable(r, RegionJetsFrom(source.Jet, r))
         IN \A n \in 1..Len(hist_dict[r]) :
              LET f == hist_dict[r][n]
              IN f.variation \in WeightNames =>
                   /\ f.observable = obs
                   /\ \E k \in 1..Len(queries) :
                        /\ queries[k].ok
                        /\ queries[k].region = r
                        /\ DirName(queries[k].syst_var, queries[k].direction)
                             = f.variation
                        /\ f.weight =
                             [i \in 1..Len(queries[k].result) |->
                                MulW(XsecWeight(metadata),
                                     <<queries[k].result[i], Permille>>)]
    /\ pc = "failed" => ~(ENABLED Next)

\* The Weight Service failed on a region that holds events, after fills.
C7_Witness ==
    /\ pc = "failed"
    /\ region_jets # <<>>
    /\ hist_dict["4j1b"] # <<>>
    /\ ~queries[Len(queries)].ok

\* C10 as claimed: a nominal ttbar unit makes three selection passes.
C10_ThreePasses ==
    (pc = "returned" /\ metadata.variation = "nominal" /\ metadata.process = "ttbar")
      => nselect = 3

\* C10 as amended: object selection and region selection run once for every
\* candidate variation (seven passes for a nominal ttbar unit); the pass of
\* a weight variation is made on the unshifted jets and gives the objects
\* and masks of the "nominal" pass.
C10_PassPerCandidate ==
    /\ Selected => nselect = iv
    /\ pc = "loop" => nselect = iv - 1
    /\ (pc = "returned" /\ metadata.variation = "nominal"
        /\ metadata.process = "ttbar") => nselect = 7
    /\ (Selected /\ syst_variations[iv] \notin {"pt_scale_up", "pt_res_up"}) =>
         LET nom == object_selection(source.Electron, source.Muon, source.Jet)
         IN /\ elecs = nom.elecs /\ muons = nom.muons /\ jets = nom.jets
            /\ selections = region_selection(nom.elecs, nom.muons, nom.jets)

\* A nominal ttbar unit has returned after seven passes over a batch whose
\* selection moves under the kinematic shifts.
C10_Witness ==
    /\ pc = "returned"
    /\ metadata.variation = "nominal" /\ metadata.process = "ttbar"
    /\ nselect = 7
    /\ SelectedWithPt(ScaledPt) # SelectedWithPt(NominalPt)

\* What the runner holds after the results it received.
RECURSIVE AccumulateAll(_)
AccumulateAll(results) ==
    IF results = <<>> THEN NoResults
    ELSE Accumulate(AccumulateAll(SubSeq(results, 1, Len(results) - 1)),
                    results[Len(results)].dataset,
                    results[Len(results)].hists)

\* C6: the runner's accumulator holds the histograms of the calls that
\* returned and nothing else: whatever a call that is running, was cancelled
\* or failed has filled is in none of the merged histograms.
C6_OnlyReturnedUnits ==
    /\ out = AccumulateAll(merged)
    /\ \A r \in Range(Regions) :
         Len(FullHistogram(out, r)) =
           SumSeq([k \in 1..Len(merged) |-> Len(merged[k].hists[r])])
    /\ pc \in Running \cup {"cancelled", "failed"} =>
         Len(merged) < nchunks

\* A second unit was cancelled after it filled events, the first unit's
\* histograms being merged already.
C6_Witness ==
    /\ pc = "cancelled"
    /\ nchunks = 2
    /\ Len(merged) = 1
    /\ FullHistogram(out, "4j2b") # <<>>
    /\ hist_dict["4j1b"] # <<>>
    /\ hist_dict["4j1b"][1].observable # <<>>

\* C8: for every event, "4j1b" is true exactly when the selected electrons
\* and muons number one, the selected jets at least four, and the selected
\* jets with a score strictly above 0.5 exactly one; "4j2b" exactly when the
\* first two hold and that number is at least two; one muon and four jets
\* with scores 0.9, 0.9, 0.1, 0.1 are in "4j2b" and not in "4j1b".
C8_RegionMasks ==
    pc = "region_selection_done" =>
      /\ ~PackedAllRaises(selections, {"4j1b", "4j2b"})
      /\ \A i \in 1..Len(jets) :
           /\ \A r \in {"4j1b", "4j2b"} :
                PackedAll(selections, {r})[i]
                  <=> InRegion(r, Len(elecs[i]) + Len(muons[i]), jets[i])
           /\ (/\ Len(elecs[i]) = 0 /\ Len(muons[i]) = 1
               /\ [k \in 1..Len(jets[i]) |-> jets[i][k].btagCSVV2] = <<9, 9, 1, 1>>)
                => (/\ PackedAll(selections, {"4j2b"})[i]
                    /\ ~PackedAll(selections, {"4j1b"})[i])

\* The masks are computed for an event with one lepton, four jets and a
\* single score above the threshold, one more being exactly at it, ahead of
\* the event with scores 0.9, 0.9, 0.1, 0.1.
C8_Witness ==
    /\ pc = "region_selection_done"
    /\ Len(jets) = 2
    /\ Len(elecs[1]) + Len(muons[1]) = 1
    /\ [k \in 1..Len(jets[1]) |-> jets[1][k].btagCSVV2] = <<9, 5, 1, 1>>
    /\ PackedAll(selections, {"4j1b"})[1]
    /\ PackedAll(selections, {"4j2b"})[2]

\* An event has a trijet combination that passes the filter exactly when it
\* has three jets and one of its jets is tagged.
HasCandidate(evjets) ==
    /\ Len(evjets) >= 3
    /\ \E k \in 1..Len(evjets) : evjets[k].btagCSVV2 > 5

SelectedInto(r) == RegionJetsFrom(JetsFor(events, syst_variations[iv]), r)

\* The weight sequence of the fill process is about to make.
WeightInHand ==
    IF pc = "fill_w" THEN MulWeights(region_weights, wgt_variation)
    ELSE region_weights

\* C11: at every fill the observable and the weight have one entry per event
\* selected into the region, the same number of each; in "4j2b" every entry
\* of the observable is a value, never the missing value, every event of the
\* region having a trijet combination that passes the filter. No call of
\* process ends on a fill that rejects its arguments.
C11_FillLengths ==
    /\ pc \in {"fill", "fill_w"} =>
         /\ Len(observable) = Len(SelectedInto(Regions[ir]))
         /\ Len(WeightInHand) = Len(SelectedInto(Regions[ir]))
         /\ ~FillRaises(observable, WeightInHand)
         /\ Regions[ir] = "4j2b" =>
              /\ \A i \in 1..Len(region_jets) : HasCandidate(region_jets[i])
              /\ \A n \in 1..Len(observable) : observable[n] # None
    /\ \A r \in Range(Regions) : \A k \in 1..Len(hist_dict[r]) :
         LET f == hist_dict[r][k]
         IN /\ Len(f.observable) = Len(f.weight)
            /\ r = "4j2b" => \A n \in 1..Len(f.observable) : f.observable[n] # None
    /\ pc = "failed" => (queries # <<>> /\ ~queries[Len(queries)].ok)

\* A weighted fill of "4j2b" was made with two events in the region.
C11_Witness ==
    \E k \in 1..Len(hist_dict["4j2b"]) :
       /\ hist_dict["4j2b"][k].variation = "btag_var_0_up"
       /\ Len(hist_dict["4j2b"][k].observable) = 2
       /\ Len(hist_dict["4j2b"][k].weight) = 2

\* C12: whenever process builds the input of the Weight Service, the jet
\* index of the variation (0 for scale_var, 0..3 for btag_var_0..3) is
\* below the number of jets of every event of the region: the region's jets
\* are the selected jets the masks were computed on, and both masks ask for
\* four of them. A call that failed failed on the family, not on the index.
C12_IndexInRange ==
    /\ Selected => selections = region_selection(elecs, muons, jets)
    /\ pc \in {"evaluate", "fill_w", "fill"} =>
         /\ region_jets = MaskEvents(jets, PackedAll(selections, {Regions[ir]}))
         /\ \A i \in 1..Len(region_jets) : Len(region_jets[i]) >= 4
    /\ pc = "evaluate" =>
         /\ JetIndex(syst_variations[iv]) \in 0..3
         /\ \A i \in 1..Len(region_jets) :
              JetIndex(syst_variations[iv]) < Len(region_jets[i])
         /\ ~JetPtAtRaises(region_jets, JetIndex(syst_variations[iv]))
    /\ \A k \in 1..Len(queries) :
         /\ ~queries[k].ok => evaluateRaises(cset, queries[k].family)
         /\ queries[k].ok => Len(queries[k].result) = Len(queries[k].input)

\* The last jet of an event of exactly four selected jets is about to be
\* read for btag_var_3.
C12_Witness ==
    /\ pc = "evaluate"
    /\ syst_variations[iv] = "btag_var_3"
    /\ Len(region_jets) = 2
    /\ Len(region_jets[1]) = 4
    /\ Len(source.Jet[1]) > 4

\* The number of entries filled into a region under a variation name.
EntriesNamed(r, name) ==
    LET fs == FillsNamed(r, name)
    IN SumSeq([k \in 1..Len(fs) |-> Len(fs[k].observable)])

\* C13: under any one candidate variation no event has both the "4j1b" and
\* the "4j2b" bit, so under one variation name the entries filled into the
\* two histograms by a call of process are together no more than the events
\* of the batch, each event having gone to one histogram at most.
C13_RegionsExclusive ==
    /\ Selected =>
         \A i \in 1..Len(jets) :
           ~(PackedAll(selections, {"4j1b"})[i] /\ PackedAll(selections, {"4j2b"})[i])
    /\ \A name \in Range(FillNames("4j1b")) \cup Range(FillNames("4j2b")) :
         EntriesNamed("4j1b", name) + EntriesNamed("4j2b", name) <= Len(source.Jet)

\* A call returned with one event of its batch filled into "4j1b" and the
\* other into "4j2b".
C13_Witness ==
    /\ pc = "returned"
    /\ Len(source.Jet) = 2
    /\ EntriesNamed("4j1b", "nominal") = 1
    /\ EntriesNamed("4j2b", "nominal") = 1

====
